---- MODULE Spec2Model ----
(***************************************************************************)
(* Model of salt/cli/support/collector.py: the sectioned archive writer    *)
(* SupportDataCollector and the SaltSupport engine that drives it.         *)
(*                                                                         *)
(* The module is Python 2 code (the file builtin, dict.keys() as a list)   *)
(* and is modelled as Python 2 runs it. Python values are modelled as      *)
(* follows.                                                                *)
(*   - text is a TLA+ string; "a" \o "b" is Python's "a" + "b";            *)
(*   - None for the section name is the string "None", which is what       *)
(*     "{}/{}".format(root, None) prints; no section is ever given that    *)
(*     name by a caller of the model;                                      *)
(*   - the archive handle __arch is 0 for None and the number of the       *)
(*     bz2open call that produced it otherwise;                            *)
(*   - __current_section is a record [some, items]: some = FALSE is None;  *)
(*   - a result value is a record [t, s, d]: t = "dict" with d the         *)
(*     key/value pairs in sorted key order, any other t a non-mapping      *)
(*     whose str() is s.                                                   *)
(***************************************************************************)
EXTENDS Integers, Sequences, FiniteSets, TLC

VARIABLES
    arch,                  \* SupportDataCollector.__arch
    current_section,       \* SupportDataCollector.__current_section
    current_section_name,  \* SupportDataCollector.__current_section_name
    handles,               \* archive handles the process holds open
    disk,                  \* the file at archive_path: [exists, old, members]
    err,                   \* exception raised by the last call, "" for none
    h,                     \* history of the calls made (read by properties only)
    pc,                    \* where SaltSupport.run stands
    config,                \* SaltSupport.config, [has |-> FALSE] before parse_args
    profile,               \* the profile get_profile loads: categories of raw actions
    exit_code,             \* run's exit_code
    cat,                   \* collect_master_data: index of category_name in scenario
    act,                   \* collect_master_data: index of action in the category
    caller_opts            \* self._caller.opts, the configuration of the last call

cvars == <<arch, current_section, current_section_name, handles, disk, err, h>>
rvars == <<pc, config, profile, exit_code, cat, act, caller_opts>>

(***************************************************************************)
(* Bounds of the model.                                                    *)
(***************************************************************************)
MaxCalls == 6      \* calls made on the collector by an arbitrary caller

(***************************************************************************)
(* Inputs.                                                                 *)
(***************************************************************************)
SectionNames == {"sys", "net"}
Paths == {"/etc/a", "/etc/b"}

StrVal(s) == [t |-> "str", s |-> s, d |-> <<>>]
DictVal(pairs) == [t |-> "dict", s |-> "", d |-> pairs]
\* an open file object, s its name
FileVal(path) == [t |-> "file", s |-> path, d |-> <<>>]

\* what a caller writes: title, value, and whether the table renderer accepts it
WriteInputs ==
    { [title |-> "T", data |-> StrVal("x"), table_ok |-> TRUE],
      [title |-> "T", data |-> StrVal("x"), table_ok |-> FALSE],
      [title |-> "Info", data |-> DictVal(<< <<"return", "r">> >>), table_ok |-> FALSE],
      [title |-> "F", data |-> FileVal("/etc/a"), table_ok |-> FALSE] }

(***************************************************************************)
(* Python's None for the section and for its name.                         *)
(***************************************************************************)
NoSection == [some |-> FALSE, items |-> <<>>]
Section(items) == [some |-> TRUE, items |-> items]
NoneName == "None"

\* time.strftime('%Y.%m.%d-%H.%M.%S-snapshot'), fixed at construction
default_root == "2018.01.01-00.00.00-snapshot"

NoFile == [exists |-> FALSE, old |-> FALSE, members |-> <<>>]

TextMember(name, data) == [kind |-> "text", name |-> name, data |-> data]
FileMember(path) == [kind |-> "file", name |-> path, data |-> ""]

TextItem(title, content) == [title |-> title, file |-> FALSE, data |-> content]
FileItem(title, path) == [title |-> title, file |-> TRUE, data |-> path]

(***************************************************************************)
(* The collector and what it writes to, as one value, so that a caller's   *)
(* sequence of calls composes. exc carries a raised exception: a call      *)
(* made while one propagates does nothing.                                 *)
(***************************************************************************)
World ==
    [arch |-> arch, sec |-> current_section, name |-> current_section_name,
     handles |-> handles, disk |-> disk, exc |-> "", h |-> h]

SetWorld(w) ==
    /\ arch' = w.arch
    /\ current_section' = w.sec
    /\ current_section_name' = w.name
    /\ handles' = w.handles
    /\ disk' = w.disk
    /\ err' = w.exc
    /\ h' = w.h

Raise(w, e) == [w EXCEPT !.exc = e]

InitHistory ==
    [calls    |-> 0,       \* calls made on the collector
     opens    |-> 0,       \* successful open() calls
     fresh    |-> FALSE,   \* the latest open() found no current section
     discards |-> 0,       \* discard_current() calls not made by add(), archive open
     lastAdd  |-> "",      \* name given to the latest add()
     origin   |-> <<>>,    \* per archive member: lastAdd when it was appended
     given    |-> <<>>,    \* per archive member: the text items written for it
     cur      |-> <<>>,    \* text items written since the section was (re)started
     hasText  |-> FALSE,   \* the section of the latest add() received a text item
     textSecs |-> 0,       \* sections begun by add() that received a text item
     linked   |-> {},      \* paths linked while the archive is open
     stale    |-> FALSE,   \* the current section's items have been flushed
     twice    |-> FALSE,   \* a flush has serialized items flushed before
     files    |-> {},      \* paths link() holds an open file object for
     invoked  |-> 0,       \* calls made to the execution backend
     extItems |-> <<>>,    \* collect_master_data: items written for external actions
     intLinked |-> {},     \* paths linked by internal functions
     lastCall |-> [kind |-> "", msg |-> "", title |-> "", table_ok |-> FALSE,
                   cat |-> 0, act |-> 0],
                           \* the latest external action: its outcome and position
     raised   |-> "",      \* class of the exception raised in the collection block
     preflight |-> "",     \* what _check_existing_archive_ found
     cleanups |-> 0,       \* _cleanup() calls
     unlinked |-> 0,       \* os.unlink() calls on the archive path
     parse    |-> "",      \* how parse_args ended: "ok", "exception" or "exit"
     parseCode |-> 0,      \* the code of the SystemExit parse_args raised
     ctorFailed |-> FALSE, \* the collector's constructor raised
     reported |-> 0,       \* errors the stub of a missing internal function put out
     stages   |-> <<>>,    \* the stages of the collection block entered so far
     dispatched |-> <<>>,  \* the actions collect_master_data has dispatched
     resolved |->          \* what _get_action returned for the action resolved
         [info |-> "",
          conf |-> [fun |-> "", arg |-> <<>>, kwargs |-> <<>>,
                    intfunc |-> FALSE, keys |-> {}]]]

\* SupportDataCollector.__init__
CollectorInit ==
    /\ arch = 0
    /\ current_section = NoSection
    /\ current_section_name = NoneName
    /\ handles = {}
    /\ err = ""
    /\ h = InitHistory

\* open() without its test of __arch: a second archive is opened over the first
open_unguarded(w, io_ok) ==
    IF w.exc # "" THEN w
    ELSE IF ~io_ok THEN Raise(w, "IOError")
    ELSE [w EXCEPT
            !.arch = w.h.opens + 1,
            !.handles = @ \cup {w.h.opens + 1},
            !.disk = [exists |-> TRUE, old |-> FALSE, members |-> <<>>],
            !.h = [@ EXCEPT !.opens = @ + 1, !.fresh = ~w.sec.some, !.origin = <<>>,
                            !.given = <<>>, !.textSecs = 0, !.linked = {}]]

(***************************************************************************)
(* SupportDataCollector.open                                               *)
(***************************************************************************)
open(w, io_ok) ==
    IF w.exc # "" THEN w
    ELSE IF w.arch # 0 THEN Raise(w, "Archive already opened.")
    ELSE IF ~io_ok THEN Raise(w, "IOError")
    ELSE [w EXCEPT
            !.arch = w.h.opens + 1,
            !.handles = @ \cup {w.h.opens + 1},
            \* bz2open(path, 'w') creates the file, or truncates it
            !.disk = [exists |-> TRUE, old |-> FALSE, members |-> <<>>],
            !.h = [@ EXCEPT !.opens = @ + 1, !.fresh = ~w.sec.some, !.origin = <<>>,
                            !.given = <<>>, !.textSecs = 0, !.linked = {}]]

(***************************************************************************)
(* SupportDataCollector._flush_content. The loop over the section: a file  *)
(* item is added to the archive as it is met, a text item is appended to   *)
(* the buffer. FlushLoop returns the archive members and the buffer after  *)
(* the items from position i on.                                           *)
(***************************************************************************)
Dashes(n) == [i \in 1..n |-> "-"]

RECURSIVE Join(_)
Join(seq) == IF seq = <<>> THEN "" ELSE Head(seq) \o Join(Tail(seq))

RECURSIVE FlushLoop(_, _, _)
FlushLoop(items, i, acc) ==
    IF i > Len(items) THEN acc
    ELSE LET it == items[i] IN
         IF it.file
         THEN FlushLoop(items, i + 1,
                  [acc EXCEPT !.members = Append(@, FileMember(it.data))])
         ELSE FlushLoop(items, i + 1,
                  [acc EXCEPT
                      !.buff = @ \o (it.title \o "\n")
                                 \o (Join(Dashes(Len(it.title))) \o "\n\n")
                                 \o it.data
                                 \o "\n\n\n",
                      !.dirty = TRUE])

\* _flush_content without its test of buff._dirty: a member for every section
flush_content_always(w) ==
    IF w.exc # "" THEN w
    ELSE IF ~w.sec.some THEN w
    ELSE IF w.arch = 0 /\ w.sec.items # <<>> THEN Raise(w, "AttributeError")
    ELSE LET r == FlushLoop(w.sec.items, 1,
                      [members |-> w.disk.members, buff |-> "", dirty |-> FALSE])
             members == Append(r.members,
                            TextMember(default_root \o "/" \o w.name, r.buff))
             nnew == Len(members) - Len(w.disk.members)
         IN [w EXCEPT
                !.disk.members = members,
                !.h.origin = @ \o [k \in 1..nnew |-> w.h.lastAdd],
                !.h.given = @ \o [k \in 1..nnew |-> w.h.cur],
                !.h.twice = @ \/ (w.h.stale /\ w.sec.items # <<>>),
                !.h.stale = @ \/ w.sec.items # <<>>]

flush_content(w) ==
    IF w.exc # "" THEN w
    ELSE IF ~w.sec.some THEN w
    ELSE IF w.arch = 0 /\ w.sec.items # <<>>
         \* self.__arch is None: the first archive write raises AttributeError
         THEN Raise(w, "AttributeError")
    ELSE LET r == FlushLoop(w.sec.items, 1,
                      [members |-> w.disk.members, buff |-> "", dirty |-> FALSE])
             nfiles == Len(r.members) - Len(w.disk.members)
             members == IF r.dirty
                        THEN Append(r.members,
                                 TextMember(default_root \o "/" \o w.name, r.buff))
                        ELSE r.members
             nnew == Len(members) - Len(w.disk.members)
         IN [w EXCEPT
                !.disk.members = members,
                !.h.origin = @ \o [k \in 1..nnew |-> w.h.lastAdd],
                !.h.given = @ \o [k \in 1..nnew |-> w.h.cur],
                !.h.twice = @ \/ (w.h.stale /\ w.sec.items # <<>>),
                !.h.stale = @ \/ w.sec.items # <<>>]

\* close() that closes the archive without flushing the current section
close_unflushed(w) ==
    IF w.exc # "" THEN w
    ELSE IF w.arch = 0 THEN Raise(w, "Archive already closed")
    ELSE [w EXCEPT !.handles = @ \ {w.arch}, !.arch = 0]

(***************************************************************************)
(* SupportDataCollector.close                                              *)
(***************************************************************************)
close(w) ==
    IF w.exc # "" THEN w
    ELSE IF w.arch = 0 THEN Raise(w, "Archive already closed")
    ELSE LET f == flush_content(w) IN
         [f EXCEPT !.handles = @ \ {w.arch}, !.arch = 0]

(***************************************************************************)
(* SupportDataCollector.discard_current                                    *)
(***************************************************************************)
discard_current(w, name) ==
    IF w.exc # "" THEN w
    ELSE [w EXCEPT !.sec = Section(<<>>), !.name = name, !.h.cur = <<>>,
                   !.h.stale = FALSE,
                   !.h.discards = IF w.arch # 0 THEN @ + 1 ELSE @]

(***************************************************************************)
(* SupportDataCollector.add                                                *)
(***************************************************************************)
add(w, name) ==
    IF w.exc # "" THEN w
    ELSE LET f == IF w.sec.some /\ w.sec.items # <<>>
                  THEN flush_content(w) ELSE w
             g == discard_current(f, name)
         IN IF g.exc # "" THEN g
            ELSE [g EXCEPT !.h.lastAdd = name, !.h.hasText = FALSE,
                           !.h.discards = w.h.discards]

(***************************************************************************)
(* SupportDataCollector.write, with the renderers it calls.                *)
(***************************************************************************)
RECURSIVE TableRows(_)
TableRows(pairs) ==
    IF pairs = <<>> THEN ""
    ELSE "| " \o Head(pairs)[1] \o " | " \o Head(pairs)[2] \o " |\n"
         \o TableRows(Tail(pairs))

\* salt.output.try_printout(data, 'table', ...) when it succeeds
TableOut(data) == TableRows(data.d)

HasKey(pairs, k) == \E i \in 1..Len(pairs) : pairs[i][1] = k
GetKey(pairs, k) == pairs[CHOOSE i \in 1..Len(pairs) : pairs[i][1] = k][2]

RECURSIVE YamlMap(_)
YamlMap(pairs) ==
    IF pairs = <<>> THEN ""
    ELSE Head(pairs)[1] \o ": " \o Head(pairs)[2] \o "\n" \o YamlMap(Tail(pairs))

\* yaml.safe_dump(data.get('return', data), default_flow_style=False, indent=4)
YamlDump(data) ==
    IF HasKey(data.d, "return")
    THEN GetKey(data.d, "return") \o "\n...\n"
    ELSE YamlMap(data.d)

\* str(data): a file object gives its repr (the object's address left out)
Str(data) ==
    IF data.t = "file" THEN "<open file '" \o data.s \o "', mode 'r'>" ELSE data.s

\* lines 127-134 of write: wrap a non-mapping, render, fall back
Render(data, table_ok) ==
    LET wrapped == IF data.t # "dict"
                   THEN DictVal(<< <<"raw-content", Str(data)>> >>)
                   ELSE data
    IN IF table_ok THEN TableOut(wrapped) ELSE YamlDump(wrapped)

\* write() that puts the item at the head of the section
write_at_head(w, title, data, table_ok) ==
    IF w.exc # "" THEN w
    ELSE IF ~w.sec.some THEN Raise(w, "AttributeError")
    ELSE LET content == Render(data, table_ok)
             first == w.arch # 0 /\ ~w.h.hasText
         IN [w EXCEPT
                !.sec.items = <<TextItem(title, content)>> \o @,
                !.h.cur = Append(@, [title |-> title, content |-> content]),
                !.h.hasText = @ \/ w.arch # 0,
                !.h.textSecs = IF first THEN @ + 1 ELSE @]

\* write() that adds a file object to the archive at once, and no item
write_file_direct(w, title, data, table_ok) ==
    IF w.exc # "" THEN w
    ELSE IF ~w.sec.some THEN Raise(w, "AttributeError")
    ELSE IF data.t = "file"
    THEN IF w.arch = 0 THEN Raise(w, "AttributeError")
         ELSE [w EXCEPT !.disk.members = Append(@, FileMember(data.s))]
    ELSE LET content == Render(data, table_ok)
             first == w.arch # 0 /\ ~w.h.hasText
         IN [w EXCEPT
                !.sec.items = Append(@, TextItem(title, content)),
                !.h.cur = Append(@, [title |-> title, content |-> content]),
                !.h.hasText = @ \/ w.arch # 0,
                !.h.textSecs = IF first THEN @ + 1 ELSE @]

write(w, title, data, table_ok) ==
    IF w.exc # "" THEN w
    ELSE IF ~w.sec.some THEN Raise(w, "AttributeError")
    ELSE LET content == Render(data, table_ok)
             first == w.arch # 0 /\ ~w.h.hasText
         IN [w EXCEPT
                !.sec.items = Append(@, TextItem(title, content)),
                !.h.cur = Append(@, [title |-> title, content |-> content]),
                !.h.hasText = @ \/ w.arch # 0,
                !.h.textSecs = IF first THEN @ + 1 ELSE @]

(***************************************************************************)
(* SupportDataCollector.link                                               *)
(***************************************************************************)
link(w, title, path) ==
    IF w.exc # "" THEN w
    ELSE IF ~w.sec.some THEN Raise(w, "AttributeError")
    ELSE [w EXCEPT
            !.sec.items = Append(@, FileItem(title, path)),
            !.h.files = @ \cup {path},
            !.h.linked = IF w.arch # 0 THEN @ \cup {path} ELSE @]

(***************************************************************************)
(* SaltSupport. Exit codes of salt.defaults.exitcodes.                     *)
(***************************************************************************)
EX_OK == 0
EX_GENERIC == 1
EX_SOFTWARE == 70

ArchivePath == "/tmp/support.bz2"

NoConfig ==
    [has |-> FALSE, support_archive |-> "", support_archive_force_overwrite |-> FALSE,
     support_profile_list |-> FALSE, support_show_units |-> FALSE,
     fun |-> "", arg |-> <<>>, kwargs |-> <<>>, file_client |-> "",
     cache_jobs |-> FALSE, print_metadata |-> FALSE]

\* the configuration parse_args leaves in self.config
ParsedConfig(force, list, units) ==
    [has |-> TRUE, support_archive |-> ArchivePath,
     support_archive_force_overwrite |-> force,
     support_profile_list |-> list, support_show_units |-> units,
     fun |-> "", arg |-> <<>>, kwargs |-> <<>>, file_client |-> "remote",
     cache_jobs |-> TRUE, print_metadata |-> TRUE]

(***************************************************************************)
(* Raw action entries {name: {info, args}}: fun is the name as its         *)
(* characters, an element of args is a bare value v or a mapping {k: v}.   *)
(***************************************************************************)
Action(fun, has_info, info, args) ==
    [fun |-> fun, has_info |-> has_info, info |-> info, args |-> args]
Positional(v) == [dict |-> FALSE, k |-> "", v |-> v]
Keyword(k, v) == [dict |-> TRUE, k |-> k, v |-> v]

ExtAction == Action(<<"p", ".", "i">>, TRUE, "Active Pillars", <<>>)
ExtAction2 == Action(<<"s", ".", "v", ".", "w">>, FALSE, "", <<Positional("x")>>)
IntAction == Action(<<"f">>, FALSE, "", <<Positional("/etc"), Keyword("flag", "1")>>)
IntMissing == Action(<<"g">>, TRUE, "Probe", <<>>)

Category(name, actions) == [name |-> name, actions |-> actions]

Profiles ==
    { << Category("sys", <<ExtAction, IntAction>>) >>,
      << Category("sys", <<IntAction, ExtAction>>) >>,
      << Category("sys", <<IntAction, IntAction>>) >>,
      << Category("sys", <<ExtAction, ExtAction2>>),
         Category("net", <<IntMissing>>) >>,
      << >> }

\* salt.cli.support.intfunc: the names it defines
IntFuncs == {"f"}

\* what a registered internal function does with the collector: it links files
LinkChoices == { <<>>, <<"/etc/a">>, <<"/etc/a", "/etc/b">> }

\* what Caller.call() does: returns a result, exits, or raises
CallOutcomes ==
    { [kind |-> "return", val |-> DictVal(<< <<"return", "r">> >>), msg |-> ""],
      [kind |-> "exit", val |-> StrVal(""), msg |-> ""],
      [kind |-> "raise", val |-> StrVal(""), msg |-> "boom"] }

(***************************************************************************)
(* SaltSupport._local_call: the configuration of the call, and its result. *)
(***************************************************************************)
CallConf(fun, arg, kwargs, intfunc, keys) ==
    [fun |-> fun, arg |-> arg, kwargs |-> kwargs, intfunc |-> intfunc, keys |-> keys]

\* _local_call updating the configuration of the previous call in place
local_call_conf_reused(call_conf) ==
    LET base == IF caller_opts.has THEN caller_opts ELSE config
        conf == [base EXCEPT !.file_client = "local", !.cache_jobs = FALSE,
                             !.print_metadata = FALSE]
    IN [conf EXCEPT
           !.fun = IF "fun" \in call_conf.keys THEN call_conf.fun ELSE @,
           !.arg = IF "arg" \in call_conf.keys THEN call_conf.arg ELSE @,
           !.kwargs = IF "kwargs" \in call_conf.keys THEN call_conf.kwargs ELSE @]

local_call_conf(call_conf) ==
    LET conf == [config EXCEPT !.file_client = "local", !.fun = "", !.arg = <<>>,
                               !.kwargs = <<>>, !.cache_jobs = FALSE,
                               !.print_metadata = FALSE]
    IN [conf EXCEPT
           !.fun = IF "fun" \in call_conf.keys THEN call_conf.fun ELSE @,
           !.arg = IF "arg" \in call_conf.keys THEN call_conf.arg ELSE @,
           !.kwargs = IF "kwargs" \in call_conf.keys THEN call_conf.kwargs ELSE @]

\* _local_call whose handler of Exception leaves the exception's message out
local_call_no_message(outcome) ==
    IF outcome.kind = "exit"
    THEN StrVal("Data is not available at this moment")
    ELSE IF outcome.kind = "raise"
    THEN StrVal("Unhandled exception occurred: ")
    ELSE outcome.val

local_call(outcome) ==
    IF outcome.kind = "exit"
    THEN StrVal("Data is not available at this moment")
    ELSE IF outcome.kind = "raise"
    THEN StrVal("Unhandled exception occurred: " \o outcome.msg)
    ELSE outcome.val

(***************************************************************************)
(* SaltSupport._get_action                                                 *)
(***************************************************************************)
SplitLen(chars, sep) == Cardinality({i \in 1..Len(chars) : chars[i] = sep}) + 1

\* dict.update that keeps the value a key already has
KwUpdate_first_wins(pairs, k, v) ==
    IF HasKey(pairs, k) THEN pairs ELSE Append(pairs, <<k, v>>)

KwUpdate(pairs, k, v) ==
    IF HasKey(pairs, k)
    THEN [i \in 1..Len(pairs) |-> IF pairs[i][1] = k THEN <<k, v>> ELSE pairs[i]]
    ELSE Append(pairs, <<k, v>>)

RECURSIVE ArgLoop(_, _, _)
ArgLoop(args, i, conf) ==
    IF i > Len(args) THEN conf
    ELSE IF ~args[i].dict
         THEN ArgLoop(args, i + 1, [conf EXCEPT !.arg = Append(@, args[i].v)])
         ELSE ArgLoop(args, i + 1,
                  [conf EXCEPT !.kwargs = KwUpdate(@, args[i].k, args[i].v)])

\* _get_action taking a name for internal unless it has exactly two parts
get_action_two_parts(action_meta) ==
    LET fun == Join(action_meta.fun)
        conf == CallConf(fun, <<>>, <<>>,
                    SplitLen(action_meta.fun, ".") # 2, {"fun", "arg", "kwargs"})
        info == IF action_meta.has_info THEN action_meta.info
                ELSE "Action for " \o fun
    IN [info |-> info, conf |-> ArgLoop(action_meta.args, 1, conf)]

get_action(action_meta) ==
    LET fun == Join(action_meta.fun)
        conf == CallConf(fun, <<>>, <<>>,
                    SplitLen(action_meta.fun, ".") - 1 = 0, {"fun", "arg", "kwargs"})
        info == IF action_meta.has_info THEN action_meta.info
                ELSE "Action for " \o fun
    IN [info |-> info, conf |-> ArgLoop(action_meta.args, 1, conf)]

(***************************************************************************)
(* SaltSupport._internal_function_call: the function of that name in       *)
(* salt.cli.support.intfunc, or the stub, called with the collector.       *)
(***************************************************************************)
RECURSIVE LinkAll(_, _)
LinkAll(w, paths) ==
    IF paths = <<>> THEN w
    ELSE LinkAll(link(w, Head(paths), Head(paths)), Tail(paths))

IntFunc(w, paths) ==
    LET l == LinkAll(w, paths)
    IN [l EXCEPT !.h.intLinked = @ \cup {paths[i] : i \in 1..Len(paths)}]

\* the stub of lines 195-199: reports, logs and returns the message
stub(w) == [w EXCEPT !.h.reported = @ + 1]

\* _internal_function_call with getattr given no default
internal_function_call_no_stub(w, call_conf, paths) ==
    IF call_conf.fun \in IntFuncs THEN IntFunc(w, paths)
    ELSE Raise(w, "AttributeError")

internal_function_call(w, call_conf, paths) ==
    IF call_conf.fun \in IntFuncs THEN IntFunc(w, paths) ELSE stub(w)

(***************************************************************************)
(* The collector driven by an arbitrary caller: every public method, in    *)
(* any order, with any argument.                                           *)
(***************************************************************************)
Called(w) == [w EXCEPT !.h.calls = @ + 1]

CallOpen ==
    /\ h.calls < MaxCalls
    /\ UNCHANGED rvars
    /\ SetWorld(Called(open(World, TRUE)))

CallClose ==
    /\ h.calls < MaxCalls
    /\ UNCHANGED rvars
    /\ SetWorld(Called(close(World)))

CallAdd ==
    /\ h.calls < MaxCalls
    /\ UNCHANGED rvars
    /\ \E name \in SectionNames : SetWorld(Called(add(World, name)))

CallDiscard ==
    /\ h.calls < MaxCalls
    /\ UNCHANGED rvars
    /\ SetWorld(Called(discard_current(World, NoneName)))

CallWrite ==
    /\ h.calls < MaxCalls
    /\ UNCHANGED rvars
    /\ \E i \in WriteInputs :
           SetWorld(Called(write(World, i.title, i.data, i.table_ok)))

CallLink ==
    /\ h.calls < MaxCalls
    /\ UNCHANGED rvars
    /\ \E path \in Paths : SetWorld(Called(link(World, path, path)))

\* run has not started: the engine's state stays as constructed
Idle ==
    /\ pc = "idle"
    /\ config = NoConfig
    /\ profile = <<>>
    /\ exit_code = EX_OK
    /\ cat = 0
    /\ act = 0
    /\ caller_opts = NoConfig

Init ==
    /\ CollectorInit
    /\ disk = NoFile
    /\ Idle

Next ==
    \/ CallOpen
    \/ CallClose
    \/ CallAdd
    \/ CallDiscard
    \/ CallWrite
    \/ CallLink

vars == <<cvars, rvars>>

Spec == Init /\ [][Next]_vars

(***************************************************************************)
(* SaltSupport.run, step by step. A step of the try block at lines         *)
(* 348-361 that raises an Exception ends in the handler: the exit code     *)
(* becomes EX_SOFTWARE and run goes on to its last lines.                  *)
(***************************************************************************)
OldFile == [exists |-> TRUE, old |-> TRUE, members |-> <<>>]

BlockPcs ==
    {"open", "profile", "category", "action", "configuration", "highstate",
     "targets", "close"}

ParseExitCodes == {0, 2}

Stage(w, name) == [w EXCEPT !.h.stages = Append(@, name)]

Proceed(w, next_pc) ==
    IF w.exc = ""
    THEN /\ SetWorld(w)
         /\ pc' = next_pc
         /\ exit_code' = exit_code
    ELSE /\ SetWorld([w EXCEPT !.h.raised = "Exception"])
         /\ pc' = "finish"
         /\ exit_code' = EX_SOFTWARE

\* ParseArgs with the SystemExit branch of the handler reporting EX_GENERIC
ParseArgs_exit_generic ==
    /\ pc = "start"
    /\ \/ /\ \E force, list, units \in BOOLEAN :
                config' = ParsedConfig(force, list, units)
          /\ pc' = "parsed"
          /\ exit_code' = exit_code
          /\ h' = [h EXCEPT !.parse = "ok"]
       \/ /\ \E force \in BOOLEAN :
                config' \in {NoConfig, ParsedConfig(force, FALSE, FALSE)}
          /\ exit_code' = EX_GENERIC
          /\ pc' = "finish"
          /\ h' = [h EXCEPT !.parse = "exception"]
       \/ /\ \E force \in BOOLEAN :
                config' \in {NoConfig, ParsedConfig(force, FALSE, FALSE)}
          /\ \E code \in ParseExitCodes :
                /\ exit_code' = EX_GENERIC
                /\ h' = [h EXCEPT !.parse = "exit", !.parseCode = code]
          /\ pc' = "finish"
    /\ UNCHANGED <<arch, current_section, current_section_name, handles, disk, err,
                   profile, cat, act, caller_opts>>

\* lines 311-321: parse_args and the handler around it
ParseArgs ==
    /\ pc = "start"
    /\ \/ /\ \E force, list, units \in BOOLEAN :
                config' = ParsedConfig(force, list, units)
          /\ pc' = "parsed"
          /\ exit_code' = exit_code
          /\ h' = [h EXCEPT !.parse = "ok"]
       \/ /\ \E force \in BOOLEAN :
                config' \in {NoConfig, ParsedConfig(force, FALSE, FALSE)}
          /\ exit_code' = EX_GENERIC
          /\ pc' = "finish"
          /\ h' = [h EXCEPT !.parse = "exception"]
       \/ /\ \E force \in BOOLEAN :
                config' \in {NoConfig, ParsedConfig(force, FALSE, FALSE)}
          /\ \E code \in ParseExitCodes :
                /\ exit_code' = code
                /\ h' = [h EXCEPT !.parse = "exit", !.parseCode = code]
          /\ pc' = "finish"
    /\ UNCHANGED <<arch, current_section, current_section_name, handles, disk, err,
                   profile, cat, act, caller_opts>>

\* lines 327-339: the list modes, or collection (the logging set up at lines
\* 323-325 touches none of the state below)
SelectMode ==
    /\ pc = "parsed"
    /\ IF config.support_profile_list \/ config.support_show_units
       THEN /\ pc' = "finish"
            /\ exit_code' = EX_OK
       ELSE /\ pc' = "check"
            /\ exit_code' = exit_code
    /\ UNCHANGED <<cvars, config, profile, cat, act, caller_opts>>

\* _check_existing_archive_ that does not look at the overwrite flag
check_existing_archive_unforced ==
    /\ pc = "check"
    /\ IF disk.exists
       THEN /\ disk' = NoFile
            /\ h' = [h EXCEPT !.unlinked = @ + 1,
                              !.preflight =
                                  IF config.support_archive_force_overwrite
                                  THEN "overwrite" ELSE "conflict"]
            /\ pc' = "construct"
       ELSE /\ pc' = "construct"
            /\ h' = [h EXCEPT !.preflight = "absent"]
            /\ UNCHANGED disk
    /\ UNCHANGED <<arch, current_section, current_section_name, handles, err,
                   config, profile, exit_code, cat, act, caller_opts>>

\* _check_existing_archive_, and line 340
check_existing_archive ==
    /\ pc = "check"
    /\ IF disk.exists
       THEN IF config.support_archive_force_overwrite
            THEN /\ disk' = NoFile
                 /\ h' = [h EXCEPT !.unlinked = @ + 1, !.preflight = "overwrite"]
                 /\ pc' = "construct"
            ELSE /\ pc' = "finish"
                 /\ h' = [h EXCEPT !.preflight = "conflict"]
                 /\ UNCHANGED disk
       ELSE /\ pc' = "construct"
            /\ h' = [h EXCEPT !.preflight = "absent"]
            /\ UNCHANGED disk
    /\ UNCHANGED <<arch, current_section, current_section_name, handles, err,
                   config, profile, exit_code, cat, act, caller_opts>>

\* lines 341-346: the collector is constructed, or the constructor raises
Construct ==
    /\ pc = "construct"
    /\ \/ /\ arch' = 0
          /\ current_section' = NoSection
          /\ current_section_name' = NoneName
          /\ pc' = "open"
          /\ exit_code' = exit_code
          /\ h' = h
       \/ /\ UNCHANGED <<arch, current_section, current_section_name>>
          /\ pc' = "finish"
          /\ exit_code' = EX_GENERIC
          /\ h' = [h EXCEPT !.ctorFailed = TRUE]
    /\ UNCHANGED <<handles, disk, err, config, profile, cat, act, caller_opts>>

\* line 349
RunOpen ==
    /\ pc = "open"
    /\ \E io_ok \in BOOLEAN : Proceed(open(Stage(World, "open"), io_ok), "profile")
    /\ UNCHANGED <<config, profile, cat, act, caller_opts>>

\* collect_master_data, line 258: the scenario is loaded
LoadProfile ==
    /\ pc = "profile"
    /\ pc' = "category"
    /\ cat' = 1
    /\ h' = Stage(World, "master").h
    /\ UNCHANGED <<arch, current_section, current_section_name, handles, disk, err,
                   config, profile, exit_code, act, caller_opts>>

\* collect_master_data, lines 259-261: the next category begins
MasterCategory ==
    /\ pc = "category"
    /\ cat <= Len(profile)
    /\ Proceed(add(World, profile[cat].name), "action")
    /\ act' = 1
    /\ UNCHANGED <<config, profile, cat, caller_opts>>

\* collect_master_data returns
MasterEnd ==
    /\ pc = "category"
    /\ cat > Len(profile)
    /\ pc' = "configuration"
    /\ UNCHANGED <<cvars, config, profile, exit_code, cat, act, caller_opts>>

\* collect_master_data, lines 263-266: an external action
Dispatch(w, x, path, nlinks) ==
    [cat |-> cat, act |-> act, path |-> path,
     invoked |-> x.h.invoked - w.h.invoked,
     discards |-> x.h.discards - w.h.discards,
     secBefore |-> Len(w.sec.items), secAfter |-> Len(x.sec.items),
     nlinks |-> nlinks]

external_action(w, info, outcome, table_ok) ==
    LET y == write(w, info, local_call(outcome), table_ok)
        x == [y EXCEPT !.h.invoked = @ + 1]
    IN [x EXCEPT
           !.h.dispatched = Append(@, Dispatch(w, x, "external", 0)),
           !.h.extItems = Append(@, [title |-> info,
                                     content |-> Render(local_call(outcome), table_ok)]),
           !.h.lastCall = [kind |-> outcome.kind, msg |-> outcome.msg,
                           title |-> info, table_ok |-> table_ok,
                           cat |-> cat, act |-> act]]

MasterExternal ==
    /\ pc = "action"
    /\ act <= Len(profile[cat].actions)
    /\ LET a == get_action(profile[cat].actions[act]) IN
       /\ ~a.conf.intfunc
       /\ \E outcome \in CallOutcomes, table_ok \in BOOLEAN :
              Proceed(external_action(World, a.info, outcome, table_ok), "action")
       /\ caller_opts' = local_call_conf(a.conf)
    /\ act' = act + 1
    /\ UNCHANGED <<config, profile, cat>>

\* collect_master_data, lines 267-269: an internal action
internal_action(w, call_conf, paths) ==
    LET x == internal_function_call(discard_current(w, NoneName), call_conf, paths)
    IN [x EXCEPT !.h.dispatched =
                     Append(@, Dispatch(w, x, "internal",
                                        IF call_conf.fun \in IntFuncs
                                        THEN Len(paths) ELSE 0))]

MasterInternal ==
    /\ pc = "action"
    /\ act <= Len(profile[cat].actions)
    /\ LET a == get_action(profile[cat].actions[act]) IN
       /\ a.conf.intfunc
       /\ \E paths \in LinkChoices :
              Proceed(internal_action(World, a.conf, paths), "action")
    /\ act' = act + 1
    /\ UNCHANGED <<config, profile, cat, caller_opts>>

\* collect_master_data, line 262: the category's actions are exhausted
MasterNextCategory ==
    /\ pc = "action"
    /\ act > Len(profile[cat].actions)
    /\ pc' = "category"
    /\ cat' = cat + 1
    /\ UNCHANGED <<cvars, config, profile, exit_code, act, caller_opts>>

\* collect_internal_data, lines 235-241
ConfigValue == DictVal(<< <<"support_archive", config.support_archive>> >>)

collect_configuration(w, table_ok1, outcome, table_ok2) ==
    LET a == add(w, "configuration")
        b == write(a, "General Configuration", ConfigValue, table_ok1)
        c == write(b, "Active Pillars", local_call(outcome), table_ok2)
    IN [c EXCEPT !.h.invoked = @ + 1]

CollectConfiguration ==
    /\ pc = "configuration"
    /\ \E outcome \in CallOutcomes, table_ok1, table_ok2 \in BOOLEAN :
           Proceed(collect_configuration(Stage(World, "internal"),
                                         table_ok1, outcome, table_ok2),
                   "highstate")
    /\ caller_opts' = local_call_conf(CallConf("pillar.items", <<>>, <<>>, FALSE, {"fun"}))
    /\ UNCHANGED <<config, profile, cat, act>>

\* collect_internal_data, lines 243-247
collect_highstate(w, outcome, table_ok) ==
    LET a == add(w, "highstate")
        b == write(a, "Rendered highstate", local_call(outcome), table_ok)
    IN [b EXCEPT !.h.invoked = @ + 1]

CollectHighstate ==
    /\ pc = "highstate"
    /\ \E outcome \in CallOutcomes, table_ok \in BOOLEAN :
           Proceed(collect_highstate(World, outcome, table_ok), "targets")
    /\ caller_opts' =
           local_call_conf(CallConf("state.show_highstate", <<>>, <<>>, FALSE, {"fun"}))
    /\ UNCHANGED <<config, profile, cat, act>>

\* collect_targets_data returning from run instead of to it
collect_targets_data_leaves ==
    /\ pc = "targets"
    /\ pc' = "finish"
    /\ h' = Stage(World, "targets").h
    /\ UNCHANGED <<arch, current_section, current_section_name, handles, disk, err,
                   config, profile, exit_code, cat, act, caller_opts>>

\* collect_targets_data
collect_targets_data ==
    /\ pc = "targets"
    /\ pc' = "close"
    /\ h' = Stage(World, "targets").h
    /\ UNCHANGED <<arch, current_section, current_section_name, handles, disk, err,
                   config, profile, exit_code, cat, act, caller_opts>>

\* lines 353-357
RunClose ==
    /\ pc = "close"
    /\ Proceed(close(Stage(World, "close")), "finish")
    /\ UNCHANGED <<config, profile, cat, act, caller_opts>>

(***************************************************************************)
(* Something called in the try block raises: get_profile, an internal      *)
(* function, an archive write, or an interrupt. "except Exception" at      *)
(* line 358 catches the instances of Exception; a SystemExit or a          *)
(* KeyboardInterrupt is none, and leaves run through no handler: the       *)
(* process ends there, lines 363-366 are not reached.                      *)
(***************************************************************************)
RaiseInBlock ==
    /\ pc \in BlockPcs
    /\ \/ /\ pc' = "finish"
          /\ exit_code' = EX_SOFTWARE
          /\ h' = [h EXCEPT !.raised = "Exception", !.lastCall.kind = ""]
       \/ /\ pc' = "crashed"
          /\ exit_code' = exit_code
          /\ h' = [h EXCEPT !.raised = "BaseException", !.lastCall.kind = ""]
    /\ UNCHANGED <<arch, current_section, current_section_name, handles, disk, err,
                   config, profile, cat, act, caller_opts>>

\* _cleanup
cleanup(w) ==
    IF config.has /\ config.support_archive # "" /\ w.disk.exists
    THEN [w EXCEPT !.disk = NoFile, !.h.unlinked = @ + 1, !.h.cleanups = @ + 1]
    ELSE [w EXCEPT !.h.cleanups = @ + 1]

\* lines 363-366
Finish ==
    /\ pc = "finish"
    /\ LET w == IF exit_code # 0 THEN cleanup(World) ELSE World
       IN SetWorld([w EXCEPT !.exc = err])
    /\ pc' = "exited"
    /\ UNCHANGED <<config, profile, exit_code, cat, act, caller_opts>>

InitRun ==
    /\ CollectorInit
    /\ disk \in {NoFile, OldFile}
    /\ pc = "start"
    /\ config = NoConfig
    /\ profile \in Profiles
    /\ exit_code = EX_OK
    /\ cat = 0
    /\ act = 0
    /\ caller_opts = NoConfig

NextRun ==
    \/ ParseArgs
    \/ SelectMode
    \/ check_existing_archive
    \/ Construct
    \/ RunOpen
    \/ LoadProfile
    \/ MasterCategory
    \/ MasterEnd
    \/ MasterExternal
    \/ MasterInternal
    \/ MasterNextCategory
    \/ CollectConfiguration
    \/ CollectHighstate
    \/ collect_targets_data
    \/ RunClose
    \/ RaiseInBlock
    \/ Finish

SpecRun == InitRun /\ [][NextRun]_vars

(***************************************************************************)
(* _get_action on its own: one raw action entry, resolved once.            *)
(***************************************************************************)
MaxArgs == 3

ArgChoices ==
    {Positional("x"), Positional("y"),
     Keyword("k", "1"), Keyword("k", "2"), Keyword("j", "1")}

RECURSIVE SeqsUpTo(_, _)
SeqsUpTo(S, n) ==
    IF n = 0 THEN {<<>>}
    ELSE LET shorter == SeqsUpTo(S, n - 1)
         IN shorter \cup {Append(q, x) : q \in shorter, x \in S}

FunChoices == { <<"f">>, <<"p", ".", "i">>, <<"a", ".", "b", ".", "c">> }

RawActions ==
    { Action(fun, has_info, IF has_info THEN "Probe" ELSE "", args) :
          fun \in FunChoices, has_info \in BOOLEAN,
          args \in SeqsUpTo(ArgChoices, MaxArgs) }

InitResolve ==
    /\ CollectorInit
    /\ disk = NoFile
    /\ pc = "resolve"
    /\ config = NoConfig
    /\ \E a \in RawActions : profile = << Category("sys", <<a>>) >>
    /\ exit_code = EX_OK
    /\ cat = 1
    /\ act = 1
    /\ caller_opts = NoConfig

Resolve ==
    /\ pc = "resolve"
    /\ h' = [h EXCEPT !.resolved = get_action(profile[cat].actions[act])]
    /\ pc' = "resolved"
    /\ UNCHANGED <<arch, current_section, current_section_name, handles, disk, err,
                   config, profile, exit_code, cat, act, caller_opts>>

NextResolve == Resolve

SpecResolve == InitResolve /\ [][NextResolve]_vars

(***************************************************************************)
(* Properties.                                                             *)
(***************************************************************************)
Members == disk.members

IsText(k) == Members[k].kind = "text"

TextMemberCount == Cardinality({k \in 1..Len(Members) : IsText(k)})

HasFileMember(path) == \E k \in 1..Len(Members) : Members[k] = FileMember(path)

\* a text item as the archive is to show it: title, underline, body, blank lines
RECURSIVE Rule(_)
Rule(n) == IF n = 0 THEN "" ELSE "-" \o Rule(n - 1)

ItemText(it) ==
    it.title \o "\n" \o Rule(Len(it.title)) \o "\n\n" \o it.content \o "\n\n\n"

RECURSIVE Blob(_)
Blob(its) == IF its = <<>> THEN "" ELSE ItemText(Head(its)) \o Blob(Tail(its))

\* close() has returned from a session that open() began with no current section
ClosedFreshSession == arch = 0 /\ h.opens >= 1 /\ h.fresh

(***************************************************************************)
(* C1. End to end: a profile of one category holding one external and one  *)
(* internal action, in either order, yields after open, collect, close     *)
(* exactly one text member for the category, holding only the external     *)
(* action's output, and every file the internal action linked is a member. *)
(***************************************************************************)
OneExternalOneInternal ==
    /\ Len(profile) = 1
    /\ Len(profile[1].actions) = 2
    /\ Cardinality({i \in 1..2 : get_action(profile[1].actions[i]).conf.intfunc}) = 1

CollectionDone == pc = "exited" /\ exit_code = EX_OK /\ h.opens = 1 /\ h.raised = ""

CategoryMembers ==
    SelectSeq(Members,
        LAMBDA m : m.kind = "text" /\ m.name = default_root \o "/" \o profile[1].name)

C1_EndToEnd ==
    (CollectionDone /\ OneExternalOneInternal) =>
        /\ Len(CategoryMembers) = 1
        /\ CategoryMembers[1].data = Blob(h.extItems)
        /\ \A p \in h.intLinked : HasFileMember(p)

(***************************************************************************)
(* C2. After close(), the number of text members in the archive equals the *)
(* number of sections begun by add() that received at least one text item, *)
(* for every sequence of add, write and link calls made between open() and *)
(* close(); a section with no text item yields no text member.             *)
(***************************************************************************)
C2_TextMemberCount ==
    (ClosedFreshSession /\ h.discards = 0) => TextMemberCount = h.textSecs

C2_Witness ==
    /\ ClosedFreshSession
    /\ h.discards = 0
    /\ h.textSecs = 1
    /\ TextMemberCount = 1
    /\ \E path \in Paths : HasFileMember(path)
    /\ h.origin[1] # h.origin[Len(Members)]

(***************************************************************************)
(* C3. Every text member has the path <root>/<name>, name being the name   *)
(* given to the add() call under which its items were collected.           *)
(***************************************************************************)
C3_MemberUnderSectionName ==
    \A k \in 1..Len(Members) :
        IsText(k) => Members[k].name = default_root \o "/" \o h.origin[k]

(***************************************************************************)
(* C4. A file linked while the archive is open is a member of the archive, *)
(* under its own path, once close() has returned, whatever add, write,     *)
(* link and discard_current calls followed the link.                       *)
(***************************************************************************)
C4_LinkedFilesArchived ==
    (arch = 0 /\ h.opens >= 1) => \A p \in h.linked : HasFileMember(p)

(***************************************************************************)
(* C5. When the external call of an action raises, or the backend exits,   *)
(* the item written for the action is the failure message and the engine   *)
(* goes on with the category's next action.                                *)
(***************************************************************************)
FailureMessage ==
    IF h.lastCall.kind = "raise"
    THEN "Unhandled exception occurred: " \o h.lastCall.msg
    ELSE "Data is not available at this moment"

\* the latest step was an external action whose call failed
ExternalCallFailed ==
    /\ h.lastCall.kind \in {"raise", "exit"}
    /\ h.lastCall.cat = cat
    /\ h.lastCall.act = act - 1

LastItem == current_section.items[Len(current_section.items)]

EngineGoesOn ==
    /\ pc = "action"
    /\ exit_code = EX_OK
    /\ err = ""
    /\ h.raised = ""
    /\ current_section.some
    /\ current_section.items # <<>>
    /\ LastItem.title = h.lastCall.title
    /\ ~LastItem.file

C6_FatalFailureCleansUp ==
    (pc \in {"exited", "crashed"} /\ h.raised # "") =>
        (h.cleanups >= 1 /\ ~disk.exists)

(***************************************************************************)
(* C7. When the archive path exists at pre-flight and overwrite is not     *)
(* forced, no archive is opened, no action is invoked, the file is left as *)
(* it was, cleanup does not run and the run ends with EX_OK.               *)
(***************************************************************************)
C7_ConflictLeavesFile ==
    h.preflight = "conflict" =>
        /\ pc \in {"finish", "exited"}
        /\ exit_code = EX_OK
        /\ disk = OldFile
        /\ arch = 0
        /\ handles = {}
        /\ h.opens = 0
        /\ h.invoked = 0
        /\ h.cleanups = 0
        /\ h.unlinked = 0

C7_Witness == h.preflight = "conflict" /\ pc = "exited" /\ disk.exists

(***************************************************************************)
(* C8. close() on a collector that is not open raises "Archive already     *)
(* closed" and changes nothing; close() on an open one flushes the current *)
(* section, closes the archive and leaves the collector closed.            *)
(***************************************************************************)
SectionTexts ==
    SelectSeq(current_section.items, LAMBDA it : ~it.file)

SectionFiles ==
    SelectSeq(current_section.items, LAMBDA it : it.file)

\* the members a flush of the current section is to append
FlushedTail(ms) == SubSeq(ms, Len(Members) + 1, Len(ms))

CloseContract ==
    IF arch = 0
    THEN /\ err' = "Archive already closed"
         /\ UNCHANGED <<arch, current_section, current_section_name, handles, disk>>
    ELSE /\ err' = ""
         /\ arch' = 0
         /\ handles' = handles \ {arch}
         /\ UNCHANGED <<current_section, current_section_name>>
         /\ disk'.exists = disk.exists
         /\ Len(disk'.members) = Len(Members) + Len(SectionFiles)
                + (IF SectionTexts = <<>> THEN 0 ELSE 1)
         /\ SubSeq(disk'.members, 1, Len(Members)) = Members
         /\ \A i \in 1..Len(SectionFiles) :
                FlushedTail(disk'.members)[i] = FileMember(SectionFiles[i].data)
         /\ SectionTexts # <<>> =>
                /\ disk'.members[Len(disk'.members)].kind = "text"
                /\ disk'.members[Len(disk'.members)].name =
                       default_root \o "/" \o current_section_name

C8_CloseContract == [][CallClose => CloseContract]_vars

\* a second close() after a successful one has failed
C8_Witness ==
    /\ err = "Archive already closed"
    /\ h.opens >= 1
    /\ TextMemberCount >= 1

(***************************************************************************)
(* C9. open() on an open collector raises "Archive already opened." and    *)
(* leaves the handle, the section and its items as they were; the process  *)
(* never holds more than one archive handle.                               *)
(***************************************************************************)
OpenContract ==
    arch # 0 =>
        /\ err' = "Archive already opened."
        /\ UNCHANGED <<arch, current_section, current_section_name, handles, disk>>

C9_OpenContract ==
    /\ [](Cardinality(handles) <= 1 /\ (arch # 0 => handles = {arch}))
    /\ [][CallOpen => OpenContract]_vars

C9_Witness ==
    /\ err = "Archive already opened."
    /\ arch # 0
    /\ current_section.items # <<>>

(***************************************************************************)
(* C10. A text member holds the text items written to its section, in the  *)
(* order of the write() calls, each as title, underline of the title's     *)
(* length, body and blank lines: none dropped, repeated or reordered.      *)
(***************************************************************************)
C10_ItemsInOrder ==
    \A k \in 1..Len(Members) : IsText(k) => Members[k].data = Blob(h.given[k])

C10_Witness ==
    \E k \in 1..Len(Members) :
        /\ IsText(k)
        /\ Len(h.given[k]) >= 2
        /\ h.given[k][1].title # h.given[k][2].title

(***************************************************************************)
(* C11. The exit code of a run is one of EX_OK, EX_GENERIC, EX_SOFTWARE:   *)
(* EX_GENERIC for argument and other early errors, EX_SOFTWARE exactly     *)
(* when an exception was raised in the open/collect/close block, EX_OK     *)
(* otherwise.  As stated this fails: line 318 hands the code of a          *)
(* SystemExit raised by parse_args to sys.exit unchanged.                  *)
(***************************************************************************)
ExitCodes == {EX_OK, EX_GENERIC, EX_SOFTWARE}

EarlyError ==
    \/ h.parse = "exception"
    \/ h.parse = "exit" /\ h.parseCode # 0
    \/ h.ctorFailed

ExpectedExit ==
    IF h.parse = "exit" THEN h.parseCode
    ELSE IF h.parse = "exception" \/ h.ctorFailed THEN EX_GENERIC
    ELSE IF h.raised = "Exception" THEN EX_SOFTWARE
    ELSE EX_OK

RawAction == profile[cat].actions[act]

PositionalOf(args) ==
    LET picked == SelectSeq(args, LAMBDA a : ~a.dict)
    IN [i \in 1..Len(picked) |-> picked[i].v]

LastOf(args, k) ==
    LET at == {i \in 1..Len(args) : args[i].dict /\ args[i].k = k}
    IN args[CHOOSE i \in at : \A j \in at : j <= i].v

KeysOf(args) == {args[i].k : i \in {j \in 1..Len(args) : args[j].dict}}

C12_ArgsResolved ==
    pc = "resolved" =>
        LET conf == h.resolved.conf
            kw == conf.kwargs
        IN /\ conf.fun = Join(RawAction.fun)
           /\ conf.arg = PositionalOf(RawAction.args)
           /\ {kw[i][1] : i \in 1..Len(kw)} = KeysOf(RawAction.args)
           /\ Len(kw) = Cardinality(KeysOf(RawAction.args))
           /\ \A i \in 1..Len(kw) : kw[i][2] = LastOf(RawAction.args, kw[i][1])
           /\ RawAction.args = <<>> => conf.arg = <<>> /\ kw = <<>>
           /\ h.resolved.info =
                  IF RawAction.has_info THEN RawAction.info
                  ELSE "Action for " \o conf.fun

\* a key given twice with different values, a positional value among them,
\* and no info
C12_Witness ==
    /\ pc = "resolved"
    /\ ~RawAction.has_info
    /\ Len(h.resolved.conf.arg) >= 1
    /\ \E i, j \in 1..Len(RawAction.args) :
           /\ i < j
           /\ RawAction.args[i].dict /\ RawAction.args[j].dict
           /\ RawAction.args[i].k = RawAction.args[j].k
           /\ RawAction.args[i].v # RawAction.args[j].v

(***************************************************************************)
(* C13. An action is internal exactly when its name has no "." in it.      *)
(* collect_master_data dispatches every action of the profile exactly      *)
(* once, category by category and action by action; an external action     *)
(* takes the external path (the backend is invoked and its result written  *)
(* to the section), an internal one the internal path (the section is      *)
(* discarded and the backend is not invoked).                              *)
(***************************************************************************)
RECURSIVE Flat(_)
Flat(c) ==
    IF c > Len(profile) THEN <<>>
    ELSE [a \in 1..Len(profile[c].actions) |-> <<c, a>>] \o Flat(c + 1)

HasDot(chars) == \E i \in 1..Len(chars) : chars[i] = "."

DispatchedRight(d) ==
    /\ d.path = "external" <=> HasDot(profile[d.cat].actions[d.act].fun)
    /\ d.path = "external" =>
           d.invoked = 1 /\ d.discards = 0 /\ d.secAfter = d.secBefore + 1
    /\ d.path = "internal" =>
           d.invoked = 0 /\ d.discards = 1 /\ d.secAfter = d.nlinks

C13_DispatchedOnceInOrder ==
    /\ Len(h.dispatched) <= Len(Flat(1))
    /\ \A i \in 1..Len(h.dispatched) :
           /\ <<h.dispatched[i].cat, h.dispatched[i].act>> = Flat(1)[i]
           /\ DispatchedRight(h.dispatched[i])
    /\ pc \in {"configuration", "highstate", "targets", "close"} =>
           Len(h.dispatched) = Len(Flat(1))

\* a profile of two categories is through: a name of one dot and one of two
\* went the external way, a name without a dot the internal way
C13_Witness ==
    /\ pc = "configuration"
    /\ Len(profile) = 2
    /\ Len(h.dispatched) = 3
    /\ h.dispatched[2].path = "external"
    /\ SplitLen(profile[1].actions[2].fun, ".") = 3
    /\ h.dispatched[3].path = "internal"

(***************************************************************************)
(* C14. On every exit path of a run that opened the archive, an exception  *)
(* in the middle of collection included, the archive handle and every file *)
(* object opened by link() have been released when the process exits: the  *)
(* collector is never left open at exit.                                   *)
(***************************************************************************)
C14_ReleasedAtExit ==
    (pc = "exited" /\ h.opens >= 1) =>
        /\ arch = 0
        /\ handles = {}
        /\ h.files = {}

(***************************************************************************)
(* C15. A collection run goes through open, collect_master_data,           *)
(* collect_internal_data, collect_targets_data and close in that order:    *)
(* open once and before any section is begun, item added or member         *)
(* written, close once and after every write, nothing written to the       *)
(* archive after close.                                                    *)
(***************************************************************************)
StageOrder == <<"open", "master", "internal", "targets", "close">>

Closing == Len(h.stages) = Len(StageOrder)

StagesInOrder ==
    /\ Len(h.stages) <= Len(StageOrder)
    /\ h.stages = SubSeq(StageOrder, 1, Len(h.stages))
    /\ h.opens <= 1
    /\ (pc = "exited" /\ h.opens = 1 /\ h.raised = "") => Closing

WritesWhileOpen ==
    (current_section' # current_section \/ disk'.members # disk.members
         \/ current_section_name' # current_section_name) =>
        /\ h.opens = 1
        /\ arch # 0
        /\ ~Closing
        /\ disk.exists' => SubSeq(disk'.members, 1, Len(disk.members)) = disk.members

C15_FixedOrder == []StagesInOrder /\ [][WritesWhileOpen]_vars

\* a run that wrote members has closed the archive and exited
C15_Witness ==
    /\ pc = "exited"
    /\ Closing
    /\ arch = 0
    /\ Len(disk.members) >= 3

(***************************************************************************)
(* C16. A section is flushed and discarded when the next one begins and    *)
(* when the archive closes: after close() no section is current, so over   *)
(* any sequence of open, add, write, link and close calls, a re-open after *)
(* close included, every item is serialized into an archive at most once.  *)
(***************************************************************************)
CloseDiscards == (arch # 0 /\ err' = "") => current_section'.items = <<>>

\* the flushes alone: no item reaches an archive a second time
NoSecondSerialization == ~h.twice

C16_SerializedAtMostOnce ==
    []NoSecondSerialization /\ [][CallClose => CloseDiscards]_vars

(***************************************************************************)
(* C17. write() given a file object appends the file to the archive at     *)
(* once, before it returns and whatever flush or discard follows, and adds *)
(* no text item to the section.                                            *)
(***************************************************************************)
WriteFileInputs == {i \in WriteInputs : i.data.t = "file"}

WriteStep(i) ==
    /\ h.calls < MaxCalls
    /\ UNCHANGED rvars
    /\ SetWorld(Called(write(World, i.title, i.data, i.table_ok)))

LastItemNext == current_section'.items[Len(current_section'.items)]

WritesFileAsText(i) ==
    (WriteStep(i) /\ current_section.some) =>
        /\ disk' = disk
        /\ Len(current_section'.items) = Len(current_section.items) + 1
        /\ ~LastItemNext.file
        /\ LastItemNext.title = i.title
        /\ LastItemNext.data # i.data.s

LinkDefers ==
    (CallLink /\ current_section.some) =>
        /\ disk' = disk
        /\ Len(current_section'.items) = Len(current_section.items) + 1
        /\ LastItemNext.file

MissingInternal ==
    /\ pc = "action"
    /\ act <= Len(profile[cat].actions)
    /\ ~HasDot(profile[cat].actions[act].fun)
    /\ Join(profile[cat].actions[act].fun) \notin IntFuncs

StubIsolated ==
    /\ pc' = "action"
    /\ act' = act + 1
    /\ cat' = cat
    /\ err' = ""
    /\ exit_code' = exit_code
    /\ h'.raised = h.raised
    /\ h'.reported = h.reported + 1
    /\ h'.invoked = h.invoked
    /\ arch' = arch
    /\ disk' = disk
    /\ current_section'.items = <<>>

C18_MissingFunctionIsolated ==
    [][(MissingInternal /\ MasterInternal) => StubIsolated]_vars

\* a run whose profile names a missing internal function has reported it,
\* gone through close() and exited with EX_OK
C18_Witness ==
    /\ h.reported = 1
    /\ CollectionDone
    /\ Closing
    /\ arch = 0

(***************************************************************************)
(* C19. A file that was at the archive path when the run started is        *)
(* deleted by the run only if overwriting was asked for: on every path     *)
(* through run (parse_args failing, the listing modes, the pre-flight      *)
(* conflict, the constructor failing, the collection failing) such a file  *)
(* is left in place when support_archive_force_overwrite is not set.       *)
(***************************************************************************)
OldFileKept ==
    (disk.old /\ disk' # disk) =>
        (config.has /\ config.support_archive_force_overwrite)

C19_OldFileKeptUnlessForced == [][OldFileKept]_vars

(***************************************************************************)
(* C20. Every external call is made with a configuration built from a      *)
(* fresh copy of the running configuration, with fun, arg and kwargs reset *)
(* to empty before the action's own fields are applied: the running        *)
(* configuration is not changed by any number of calls, and the arguments  *)
(* of one action are never seen by the call made for a later one.          *)
(***************************************************************************)
\* the configuration a call is to be made with, but for fun, arg and kwargs
CallBase ==
    [config EXCEPT !.file_client = "local", !.cache_jobs = FALSE,
                   !.print_metadata = FALSE]

CalledWith(fun, arg, nkwargs) ==
    /\ caller_opts'.fun = fun
    /\ caller_opts'.arg = arg
    /\ Len(caller_opts'.kwargs) = nkwargs
    /\ [caller_opts' EXCEPT !.fun = "", !.arg = <<>>, !.kwargs = <<>>] = CallBase
    /\ config' = config
    /\ config.fun = "" /\ config.arg = <<>> /\ config.kwargs = <<>>

FreshConfPerCall ==
    /\ MasterExternal =>
           CalledWith(Join(RawAction.fun), PositionalOf(RawAction.args),
                      Cardinality(KeysOf(RawAction.args)))
    /\ CollectConfiguration => CalledWith("pillar.items", <<>>, 0)
    /\ CollectHighstate => CalledWith("state.show_highstate", <<>>, 0)
    /\ pc # "start" => config' = config

C20_FreshConfPerCall == [][FreshConfPerCall]_vars

\* the call for pillar.items, made after the call of an action with a
\* positional argument, has no argument
C20_Witness ==
    /\ pc = "highstate"
    /\ caller_opts.fun = "pillar.items"
    /\ caller_opts.arg = <<>>
    /\ \E i \in 1..Len(h.dispatched) :
           /\ h.dispatched[i].path = "external"
           /\ profile[h.dispatched[i].cat].actions[h.dispatched[i].act].args # <<>>

====
